---- MODULE Spec2Model ----
(***************************************************************************)
(* Model of the interactive thermodynamic properties calculator            *)
(* (src/src/main.rs).  The program is a chain of nested calls that blocks  *)
(* at one read_line per prompt; one action of the model is the code run    *)
(* from one read_line to the next.  No handler returns: every path ends in *)
(* a further call or in std::process::exit, so the code that follows a     *)
(* recursive re-prompt in the source is never executed.                    *)
(*                                                                         *)
(* f64 values are modelled as exact rationals <<numerator, denominator>>.  *)
(***************************************************************************)
EXTENDS Integers, Sequences, FiniteSets, TLC

VARIABLES program_state, prompt, depth, input, screen, engine_log, stack_limit

vars == <<program_state, prompt, depth, input, screen, engine_log, stack_limit>>

----------------------------------------------------------------------------
(* Bounds of the model *)

\* Deepest call stack explored (frames below and including the blocked read).
MaxDepth == 16

\* Deepest call stack explored when every line is valid and the engine succeeds.
ScenarioDepth == 21

----------------------------------------------------------------------------
(* Rational arithmetic standing for f64 *)

RECURSIVE Gcd(_, _)
Gcd(a, b) == IF b = 0 THEN a ELSE Gcd(b, a % b)

Abs(n) == IF n < 0 THEN -n ELSE n

Norm(n, d) ==
    IF d = 0 THEN <<(IF n > 0 THEN 1 ELSE IF n < 0 THEN -1 ELSE 0), 0>>
    ELSE LET g == Gcd(Abs(n), Abs(d))
             s == IF d < 0 THEN -1 ELSE 1
         IN  <<(s * n) \div g, (s * d) \div g>>

Rat(n, d) == Norm(n, d)
Num(n) == <<n, 1>>
\* Products cancel crosswise first, so intermediate values stay small.
RMul(a, b) ==
    LET g1 == Gcd(Abs(a[1]), Abs(b[2]))
        g2 == Gcd(Abs(b[1]), Abs(a[2]))
        h1 == IF g1 = 0 THEN 1 ELSE g1
        h2 == IF g2 = 0 THEN 1 ELSE g2
    IN  Norm((a[1] \div h1) * (b[1] \div h2), (a[2] \div h2) * (b[2] \div h1))

RDiv(a, b) == RMul(a, <<b[2], b[1]>>)

RAdd(a, b) ==
    LET g == Gcd(a[2], b[2])
        h == IF g = 0 THEN 1 ELSE g
    IN  Norm(a[1] * (b[2] \div h) + b[1] * (a[2] \div h), (a[2] \div h) * b[2])

RSub(a, b) == RAdd(a, <<-b[1], b[2]>>)

Zero == Num(0)

----------------------------------------------------------------------------
(* Composition catalog *)

\* Mole fractions are kept in hundredths (0.78 is 78).
CompositionDefault == [nitrogen |-> 0, oxygen |-> 0, argon |-> 0]

get_gas_comp(gas_comp) ==
    CASE gas_comp = "Air"      -> [nitrogen |-> 78, oxygen |-> 21, argon |-> 1]
      [] gas_comp = "Argon"    -> [nitrogen |-> 0, oxygen |-> 0, argon |-> 100]
      [] gas_comp = "Nitrogen" -> [nitrogen |-> 100, oxygen |-> 0, argon |-> 0]
      [] gas_comp = "Oxygen"   -> [nitrogen |-> 0, oxygen |-> 100, argon |-> 0]

GasComp == {"Air", "Argon", "Nitrogen", "Oxygen"}

----------------------------------------------------------------------------
(* The equation-of-state engine object (aga8 Detail), as the program uses it *)

\* d: the density last computed, tagged with the call's inputs and outcome.
DensityUnset == [status |-> "unset", p |-> Zero, t |-> Zero, x |-> CompositionDefault]

\* props: the derived bundle, tagged with the inputs properties() read.
PropertiesUnset == [status |-> "unset", t |-> Zero, d |-> DensityUnset, x |-> CompositionDefault]

DetailNew ==
    [p |-> Zero, t |-> Zero, x |-> CompositionDefault,
     d |-> DensityUnset, props |-> PropertiesUnset]

set_composition(detail, comp) == [detail EXCEPT !.x = comp]

\* density() reads p, t, x and writes d; ok is the engine's verdict.
density(detail, ok) ==
    [detail EXCEPT !.d = [status |-> IF ok THEN "ok" ELSE "err",
                          p |-> detail.p, t |-> detail.t, x |-> detail.x]]

\* properties() reads t, d, x and overwrites the derived bundle.
properties(detail) ==
    [detail EXCEPT !.props = [status |-> "computed", t |-> detail.t,
                              d |-> detail.d, x |-> detail.x]]

calculate_state(ps, ok) ==
    [ps EXCEPT !.gas_state = properties(density(ps.gas_state, ok))]

\* The engine calls and the warning calculate_state makes, in order.
calculate_state_log(ok) ==
    <<[object |-> "gas_state", call |-> "density", ok |-> ok]>>
    \o (IF ok THEN <<>> ELSE <<[object |-> "stdout", call |-> "warning", ok |-> FALSE]>>)
    \o <<[object |-> "gas_state", call |-> "properties", ok |-> TRUE]>>

----------------------------------------------------------------------------
(* Unit conversion *)

UnitPressure == {"kPa", "PSI", "Bar"}
UnitTemp == {"C", "K", "F", "R"}
UnitInternalEnergy == {"J_mol", "kJ_kg", "BTU_lbm"}

BarFactor == Rat(1, 100)
PsiFactor == Rat(145038, 1000000)
KelvinOffset == Rat(27315, 100)

get_pressure(pressure, unit) ==
    CASE unit = "kPa" -> pressure
      [] unit = "Bar" -> RMul(pressure, BarFactor)
      [] unit = "PSI" -> RMul(pressure, PsiFactor)

get_temperature(temperature, unit) ==
    CASE unit = "K" -> temperature
      [] unit = "C" -> RSub(temperature, KelvinOffset)
      [] unit = "F" -> RAdd(RDiv(RMul(RSub(temperature, KelvinOffset), Num(9)), Num(5)), Num(32))
      [] unit = "R" -> RDiv(RMul(temperature, Num(9)), Num(5))

\* The match of set_pressure on the display unit (input conversion).
pressure_from_input(p, unit) ==
    CASE unit = "kPa" -> p
      [] unit = "Bar" -> RDiv(p, BarFactor)
      [] unit = "PSI" -> RDiv(p, PsiFactor)

\* Mutant of temperature_from_input: Rankine is given the Fahrenheit offset.
temperature_from_input_offset_rankine(t, unit) ==
    CASE unit = "K" -> t
      [] unit = "C" -> RAdd(t, KelvinOffset)
      [] unit = "F" -> RAdd(RDiv(RMul(RSub(t, Num(32)), Num(5)), Num(9)), KelvinOffset)
      [] unit = "R" -> RAdd(RDiv(RMul(RSub(t, Num(32)), Num(5)), Num(9)), KelvinOffset)

\* The match of set_temperature on the display unit (input conversion).
temperature_from_input(t, unit) ==
    CASE unit = "K" -> t
      [] unit = "C" -> RAdd(t, KelvinOffset)
      [] unit = "F" -> RAdd(RDiv(RMul(RSub(t, Num(32)), Num(5)), Num(9)), KelvinOffset)
      [] unit = "R" -> RDiv(RMul(t, Num(5)), Num(9))

\* Internal energy is rendered from the bundle; the value is opaque.
get_internal_energy(ps) ==
    [of |-> ps.gas_state.props, unit |-> ps.units.internal_energy]

----------------------------------------------------------------------------
(* Input lines, after trim() *)

MenuLines == {"g", "p", "t", "u", "1", "2", "q", "x"}
GasLines == {"1", "2", "3", "4", "x"}
PressureLines == {"500", "1000", "abc"}
TemperatureLines == {"300", "abc"}
UnitKindLines == {"1", "2", "3", "x"}
PressureUnitLines == {"1", "2", "3", "x"}
TemperatureUnitLines == {"1", "2", "3", "4", "x"}
InternalEnergyUnitLines == {"1", "2", "3", "x"}

\* str::parse::<f64> on the lines above.
parse_f64(line) ==
    CASE line = "500"  -> [ok |-> TRUE, num |-> Num(500)]
      [] line = "1000" -> [ok |-> TRUE, num |-> Num(1000)]
      [] line = "300"  -> [ok |-> TRUE, num |-> Num(300)]
      [] OTHER         -> [ok |-> FALSE, num |-> Zero]

----------------------------------------------------------------------------
(* Handlers, as functions of the program state *)

\* Mutant of main_state: the initial pressure and temperature are not stored.
main_state_unset_point ==
    [gas |-> "Air",
     gas_state |-> set_composition(DetailNew, get_gas_comp("Air")),
     gas_comp |-> get_gas_comp("Air"),
     unit_text |-> [pressure |-> "kPa", temperature |-> "K", internal_energy |-> "J/mol"],
     units |-> [pressure |-> "kPa", temp |-> "K", internal_energy |-> "J_mol"],
     inlet_state |-> DetailNew,
     discharge_state |-> DetailNew,
     show_inlet_state |-> FALSE,
     show_discharge_state |-> FALSE]

\* The state main() builds before its first calculate_state.
main_state ==
    [gas |-> "Air",
     gas_state |-> [set_composition(DetailNew, get_gas_comp("Air"))
                        EXCEPT !.p = Num(100), !.t = KelvinOffset],
     gas_comp |-> get_gas_comp("Air"),
     unit_text |-> [pressure |-> "kPa", temperature |-> "K", internal_energy |-> "J/mol"],
     units |-> [pressure |-> "kPa", temp |-> "K", internal_energy |-> "J_mol"],
     inlet_state |-> DetailNew,
     discharge_state |-> DetailNew,
     show_inlet_state |-> FALSE,
     show_discharge_state |-> FALSE]

set_inlet(ps) ==
    [ps EXCEPT !.show_inlet_state = TRUE,
               !.inlet_state = set_composition(
                    [@ EXCEPT !.p = ps.gas_state.p, !.t = ps.gas_state.t], ps.gas_comp)]

set_discharge(ps) ==
    [ps EXCEPT !.show_discharge_state = TRUE,
               !.discharge_state = set_composition(
                    [@ EXCEPT !.p = ps.gas_state.p, !.t = ps.gas_state.t], ps.gas_comp)]

\* The gas named by a valid choice of the gas menu.
gas_of_choice(choice) ==
    CASE choice = "1" -> "Air"
      [] choice = "2" -> "Argon"
      [] choice = "3" -> "Nitrogen"
      [] choice = "4" -> "Oxygen"

\* Mutant of set_gas_comp: the two show flags are left as they were.
set_gas_comp_keeping_flags(ps, choice, ok) ==
    LET new_gas_comp == get_gas_comp(gas_of_choice(choice))
    IN  calculate_state(
            [ps EXCEPT !.gas = gas_of_choice(choice),
                       !.gas_state = set_composition(@, new_gas_comp)], ok)

\* set_gas_comp on a valid choice: everything from the match to calculate_state.
set_gas_comp(ps, choice, ok) ==
    LET new_gas_comp == get_gas_comp(gas_of_choice(choice))
    IN  calculate_state(
            [ps EXCEPT !.gas = gas_of_choice(choice),
                       !.gas_state = set_composition(@, new_gas_comp),
                       !.show_inlet_state = FALSE,
                       !.show_discharge_state = FALSE], ok)

\* Mutant of set_gas_comp_retry: the code after the match runs with the
\* default composition.
set_gas_comp_fallthrough(ps) ==
    [ps EXCEPT !.gas_state = set_composition(@, CompositionDefault),
               !.show_inlet_state = FALSE,
               !.show_discharge_state = FALSE]

\* set_gas_comp on any other line: the nested set_gas_comp blocks on its own
\* read_line and never returns, so nothing after the match runs.
set_gas_comp_retry(ps) == ps

\* Mutant of set_pressure: the inlet slot shares the current point's pressure.
set_pressure_aliasing(ps, num, ok) ==
    calculate_state(
        [ps EXCEPT !.gas_state.p = pressure_from_input(num, ps.units.pressure),
                   !.inlet_state.p = pressure_from_input(num, ps.units.pressure)], ok)

\* Mutant of set_pressure: a new pressure hides both slots, as a new gas does.
set_pressure_hiding(ps, num, ok) ==
    calculate_state(
        [ps EXCEPT !.gas_state.p = pressure_from_input(num, ps.units.pressure),
                   !.show_inlet_state = FALSE,
                   !.show_discharge_state = FALSE], ok)

\* set_pressure on a line that parses: the unit match and calculate_state.
set_pressure(ps, num, ok) ==
    calculate_state(
        [ps EXCEPT !.gas_state.p = pressure_from_input(num, ps.units.pressure)], ok)

\* Mutant of set_pressure_retry: the fallback 0.0 reaches the unit match.
set_pressure_fallthrough(ps) ==
    [ps EXCEPT !.gas_state.p = pressure_from_input(Zero, ps.units.pressure)]

\* set_pressure on a parse error: the nested set_pressure never returns, so
\* the fallback 0.0 is never bound to p.
set_pressure_retry(ps) == ps

\* Mutant of set_temperature: the temperature is written and not refreshed.
set_temperature_unrefreshed(ps, num, ok) ==
    [ps EXCEPT !.gas_state.t = temperature_from_input(num, ps.units.temp)]

set_temperature(ps, num, ok) ==
    calculate_state(
        [ps EXCEPT !.gas_state.t = temperature_from_input(num, ps.units.temp)], ok)

set_temperature_retry(ps) == ps

\* Mutant of change_unit_pressure: choosing Bar rescales the stored pressure too.
change_unit_pressure_converting(ps, choice) ==
    CASE choice = "1" -> [ps EXCEPT !.unit_text.pressure = "kPa", !.units.pressure = "kPa"]
      [] choice = "2" -> [ps EXCEPT !.unit_text.pressure = "Bar", !.units.pressure = "Bar",
                                    !.gas_state.p = get_pressure(@, "Bar")]
      [] choice = "3" -> [ps EXCEPT !.unit_text.pressure = "PSI", !.units.pressure = "PSI"]

change_unit_pressure(ps, choice) ==
    CASE choice = "1" -> [ps EXCEPT !.unit_text.pressure = "kPa", !.units.pressure = "kPa"]
      [] choice = "2" -> [ps EXCEPT !.unit_text.pressure = "Bar", !.units.pressure = "Bar"]
      [] choice = "3" -> [ps EXCEPT !.unit_text.pressure = "PSI", !.units.pressure = "PSI"]

\* Mutant of change_unit_temperature: choices 1 and 2 store each other's unit.
change_unit_temperature_swapped(ps, choice) ==
    CASE choice = "1" -> [ps EXCEPT !.unit_text.temperature = "C", !.units.temp = "K"]
      [] choice = "2" -> [ps EXCEPT !.unit_text.temperature = "K", !.units.temp = "C"]
      [] choice = "3" -> [ps EXCEPT !.unit_text.temperature = "F", !.units.temp = "F"]
      [] choice = "4" -> [ps EXCEPT !.unit_text.temperature = "R", !.units.temp = "R"]

change_unit_temperature(ps, choice) ==
    CASE choice = "1" -> [ps EXCEPT !.unit_text.temperature = "C", !.units.temp = "C"]
      [] choice = "2" -> [ps EXCEPT !.unit_text.temperature = "K", !.units.temp = "K"]
      [] choice = "3" -> [ps EXCEPT !.unit_text.temperature = "F", !.units.temp = "F"]
      [] choice = "4" -> [ps EXCEPT !.unit_text.temperature = "R", !.units.temp = "R"]

change_unit_internal_energy(ps, choice) ==
    CASE choice = "1" -> [ps EXCEPT !.unit_text.internal_energy = "J/mol",
                                    !.units.internal_energy = "J_mol"]
      [] choice = "2" -> [ps EXCEPT !.unit_text.internal_energy = "kJ/kg",
                                    !.units.internal_energy = "kJ_kg"]
      [] choice = "3" -> [ps EXCEPT !.unit_text.internal_energy = "BTU/lbm",
                                    !.units.internal_energy = "BTU_lbm"]

\* The prompt a unit-kind choice leads to.
change_units(choice) ==
    CASE choice = "1" -> "ChangeUnitPressure"
      [] choice = "2" -> "ChangeUnitTemperature"
      [] choice = "3" -> "ChangeUnitInternalEnergy"
      [] OTHER        -> "ChangeUnits"

\* The prompt an invalid line leads to at each unit prompt (the `_` arms).
change_unit_pressure_retry == "ChangeUnitTemperature"
change_unit_temperature_retry == "ChangeUnitTemperature"
change_unit_internal_energy_retry == "ChangeUnitInternalEnergy"

----------------------------------------------------------------------------
(* Rendering *)

\* Whether the Inlet / Discharge columns are printed.
columns_shown(ps) == ps.show_inlet_state \/ ps.show_discharge_state

\* Mutant of comparison_shown: one visible slot is enough.
comparison_shown_either(ps) == ps.show_inlet_state \/ ps.show_discharge_state

\* Whether the comparison lines are printed.
comparison_shown(ps) == ps.show_inlet_state /\ ps.show_discharge_state

\* Mutant of comparison: the ratios are taken of the displayed values.
comparison_of_display(ps) ==
    [pr |-> RDiv(get_pressure(ps.discharge_state.p, ps.units.pressure),
                 get_pressure(ps.inlet_state.p, ps.units.pressure)),
     tr |-> RDiv(get_temperature(ps.discharge_state.t, ps.units.temp),
                 get_temperature(ps.inlet_state.t, ps.units.temp)),
     td |-> RSub(ps.discharge_state.t, ps.inlet_state.t),
     td_unit |-> ps.unit_text.temperature]

\* The three comparison lines.
comparison(ps) ==
    [pr |-> RDiv(ps.discharge_state.p, ps.inlet_state.p),
     tr |-> RDiv(ps.discharge_state.t, ps.inlet_state.t),
     td |-> RSub(ps.discharge_state.t, ps.inlet_state.t),
     td_unit |-> ps.unit_text.temperature]

\* What print_gas_state writes; a part not printed is the empty sequence.
print_gas_state(ps) ==
    [gas |-> ps.gas,
     pressure |-> get_pressure(ps.gas_state.p, ps.units.pressure),
     pressure_unit |-> ps.unit_text.pressure,
     temperature |-> get_temperature(ps.gas_state.t, ps.units.temp),
     temperature_unit |-> ps.unit_text.temperature,
     inlet |-> IF columns_shown(ps)
               THEN <<[pressure |-> get_pressure(ps.inlet_state.p, ps.units.pressure),
                       temperature |-> get_temperature(ps.inlet_state.t, ps.units.temp)]>>
               ELSE <<>>,
     discharge |-> IF columns_shown(ps)
               THEN <<[pressure |-> get_pressure(ps.discharge_state.p, ps.units.pressure),
                       temperature |-> get_temperature(ps.discharge_state.t, ps.units.temp)]>>
               ELSE <<>>,
     properties |-> ps.gas_state.props,
     internal_energy |-> get_internal_energy(ps),
     internal_energy_unit |-> ps.unit_text.internal_energy,
     comparison |-> IF comparison_shown(ps) THEN <<comparison(ps)>> ELSE <<>>]

----------------------------------------------------------------------------
(* The session: one action per line read at a prompt *)

set_composition_log(object) ==
    <<[object |-> object, call |-> "set_composition", ok |-> TRUE]>>

\* print_gas_state followed by print_main_menu up to its read_line:
\* two more frames, the render replaced, the main menu presented.
Render(ps, frames) ==
    /\ depth + frames + 2 <= stack_limit
    /\ program_state' = ps
    /\ screen' = print_gas_state(ps)
    /\ prompt' = "MainMenu"
    /\ depth' = depth + frames + 2
    /\ UNCHANGED stack_limit

\* Mutant of Ask: the prompt is repeated in a loop, in the same frame.
AskInLoop(next) ==
    /\ prompt' = next
    /\ depth' = depth
    /\ engine_log' = <<>>
    /\ UNCHANGED <<screen, stack_limit>>

\* A nested call that goes straight to a read_line: one more frame, no render.
Ask(next) ==
    /\ depth + 1 <= stack_limit
    /\ prompt' = next
    /\ depth' = depth + 1
    /\ engine_log' = <<>>
    /\ UNCHANGED <<screen, stack_limit>>

\* main() up to the first read_line of print_main_menu.
Start ==
    \E ok \in BOOLEAN :
        /\ program_state = calculate_state(main_state, ok)
        /\ screen = print_gas_state(calculate_state(main_state, ok))
        /\ engine_log = set_composition_log("gas_state") \o calculate_state_log(ok)
        /\ prompt = "MainMenu"
        /\ depth = 3
        /\ input = [at |-> "main", line |-> ""]

Init == Start /\ stack_limit = MaxDepth

MainMenuQuit ==
    /\ prompt = "MainMenu"
    /\ input' = [at |-> prompt, line |-> "q"]
    /\ prompt' = "Exit"
    /\ depth' = depth
    /\ engine_log' = <<>>
    /\ UNCHANGED <<program_state, screen, stack_limit>>

MainMenuSelect ==
    /\ prompt = "MainMenu"
    /\ \E line \in {"g", "p", "t", "u"} :
        /\ input' = [at |-> prompt, line |-> line]
        /\ Ask(CASE line = "g" -> "SelectGas"
                 [] line = "p" -> "SetPressure"
                 [] line = "t" -> "SetTemperature"
                 [] line = "u" -> "ChangeUnits")
        /\ UNCHANGED program_state

MainMenuSetInlet ==
    /\ prompt = "MainMenu"
    /\ input' = [at |-> prompt, line |-> "1"]
    /\ engine_log' = set_composition_log("inlet_state")
    /\ Render(set_inlet(program_state), 1)

MainMenuSetDischarge ==
    /\ prompt = "MainMenu"
    /\ input' = [at |-> prompt, line |-> "2"]
    /\ engine_log' = set_composition_log("discharge_state")
    /\ Render(set_discharge(program_state), 1)

\* Mutant of MainMenuInvalid: an unrecognised token ends the session.
MainMenuInvalidQuits ==
    /\ prompt = "MainMenu"
    /\ \E line \in MenuLines \ {"g", "p", "t", "u", "1", "2", "q"} :
        /\ input' = [at |-> prompt, line |-> line]
        /\ prompt' = "Exit"
        /\ engine_log' = <<>>
        /\ UNCHANGED <<program_state, screen, depth, stack_limit>>

MainMenuInvalid ==
    /\ prompt = "MainMenu"
    /\ \E line \in MenuLines \ {"g", "p", "t", "u", "1", "2", "q"} :
        /\ input' = [at |-> prompt, line |-> line]
        /\ Ask("MainMenu")
        /\ UNCHANGED program_state

SelectGasValid ==
    /\ prompt = "SelectGas"
    /\ \E line \in GasLines \cap {"1", "2", "3", "4"}, ok \in BOOLEAN :
        /\ input' = [at |-> prompt, line |-> line]
        /\ engine_log' = set_composition_log("gas_state") \o calculate_state_log(ok)
        /\ Render(set_gas_comp(program_state, line, ok), 0)

SelectGasInvalid ==
    /\ prompt = "SelectGas"
    /\ \E line \in GasLines \ {"1", "2", "3", "4"} :
        /\ input' = [at |-> prompt, line |-> line]
        /\ Ask("SelectGas")
        /\ program_state' = set_gas_comp_retry(program_state)

SetPressureValid ==
    /\ prompt = "SetPressure"
    /\ \E line \in PressureLines, ok \in BOOLEAN :
        /\ parse_f64(line).ok
        /\ input' = [at |-> prompt, line |-> line]
        /\ engine_log' = calculate_state_log(ok)
        /\ Render(set_pressure(program_state, parse_f64(line).num, ok), 0)

SetPressureInvalid ==
    /\ prompt = "SetPressure"
    /\ \E line \in PressureLines :
        /\ ~parse_f64(line).ok
        /\ input' = [at |-> prompt, line |-> line]
        /\ Ask("SetPressure")
        /\ program_state' = set_pressure_retry(program_state)

SetTemperatureValid ==
    /\ prompt = "SetTemperature"
    /\ \E line \in TemperatureLines, ok \in BOOLEAN :
        /\ parse_f64(line).ok
        /\ input' = [at |-> prompt, line |-> line]
        /\ engine_log' = calculate_state_log(ok)
        /\ Render(set_temperature(program_state, parse_f64(line).num, ok), 0)

SetTemperatureInvalid ==
    /\ prompt = "SetTemperature"
    /\ \E line \in TemperatureLines :
        /\ ~parse_f64(line).ok
        /\ input' = [at |-> prompt, line |-> line]
        /\ Ask("SetTemperature")
        /\ program_state' = set_temperature_retry(program_state)

ChangeUnits ==
    /\ prompt = "ChangeUnits"
    /\ \E line \in UnitKindLines :
        /\ input' = [at |-> prompt, line |-> line]
        /\ Ask(change_units(line))
        /\ UNCHANGED program_state

ChangeUnitPressureValid ==
    /\ prompt = "ChangeUnitPressure"
    /\ \E line \in PressureUnitLines \cap {"1", "2", "3"} :
        /\ input' = [at |-> prompt, line |-> line]
        /\ engine_log' = <<>>
        /\ Render(change_unit_pressure(program_state, line), 0)

ChangeUnitPressureInvalid ==
    /\ prompt = "ChangeUnitPressure"
    /\ \E line \in PressureUnitLines \ {"1", "2", "3"} :
        /\ input' = [at |-> prompt, line |-> line]
        /\ Ask(change_unit_pressure_retry)
        /\ UNCHANGED program_state

ChangeUnitTemperatureValid ==
    /\ prompt = "ChangeUnitTemperature"
    /\ \E line \in TemperatureUnitLines \cap {"1", "2", "3", "4"} :
        /\ input' = [at |-> prompt, line |-> line]
        /\ engine_log' = <<>>
        /\ Render(change_unit_temperature(program_state, line), 0)

ChangeUnitTemperatureInvalid ==
    /\ prompt = "ChangeUnitTemperature"
    /\ \E line \in TemperatureUnitLines \ {"1", "2", "3", "4"} :
        /\ input' = [at |-> prompt, line |-> line]
        /\ Ask(change_unit_temperature_retry)
        /\ UNCHANGED program_state

ChangeUnitInternalEnergyValid ==
    /\ prompt = "ChangeUnitInternalEnergy"
    /\ \E line \in InternalEnergyUnitLines \cap {"1", "2", "3"} :
        /\ input' = [at |-> prompt, line |-> line]
        /\ engine_log' = <<>>
        /\ Render(change_unit_internal_energy(program_state, line), 0)

ChangeUnitInternalEnergyInvalid ==
    /\ prompt = "ChangeUnitInternalEnergy"
    /\ \E line \in InternalEnergyUnitLines \ {"1", "2", "3"} :
        /\ input' = [at |-> prompt, line |-> line]
        /\ Ask(change_unit_internal_energy_retry)
        /\ UNCHANGED program_state

Next ==
    \/ MainMenuQuit
    \/ MainMenuSelect
    \/ MainMenuSetInlet
    \/ MainMenuSetDischarge
    \/ MainMenuInvalid
    \/ SelectGasValid
    \/ SelectGasInvalid
    \/ SetPressureValid
    \/ SetPressureInvalid
    \/ SetTemperatureValid
    \/ SetTemperatureInvalid
    \/ ChangeUnits
    \/ ChangeUnitPressureValid
    \/ ChangeUnitPressureInvalid
    \/ ChangeUnitTemperatureValid
    \/ ChangeUnitTemperatureInvalid
    \/ ChangeUnitInternalEnergyValid
    \/ ChangeUnitInternalEnergyInvalid

Spec == Init /\ [][Next]_vars

----------------------------------------------------------------------------
(* Sessions of an operator who types only valid lines, with the engine in  *)
(* bounds: the same handlers, explored deeper.                             *)

EngineInBounds == \A i \in 1..Len(engine_log) : engine_log[i].ok

ScenarioInit == Start /\ EngineInBounds /\ stack_limit = ScenarioDepth

ScenarioMenu == MainMenuSelect
ScenarioSetInlet == MainMenuSetInlet
ScenarioSetDischarge == MainMenuSetDischarge
ScenarioSelectGas == SelectGasValid /\ EngineInBounds'
ScenarioSetPressure == SetPressureValid /\ EngineInBounds'
ScenarioSetTemperature == SetTemperatureValid /\ EngineInBounds'
ScenarioChangeUnits == ChangeUnits /\ prompt' # "ChangeUnits"
ScenarioChangeUnitPressure == ChangeUnitPressureValid
ScenarioChangeUnitTemperature == ChangeUnitTemperatureValid
ScenarioChangeUnitInternalEnergy == ChangeUnitInternalEnergyValid

ScenarioNext ==
    \/ ScenarioMenu
    \/ ScenarioSetInlet
    \/ ScenarioSetDischarge
    \/ ScenarioSelectGas
    \/ ScenarioSetPressure
    \/ ScenarioSetTemperature
    \/ ScenarioChangeUnits
    \/ ScenarioChangeUnitPressure
    \/ ScenarioChangeUnitTemperature
    \/ ScenarioChangeUnitInternalEnergy

ScenarioSpec == ScenarioInit /\ [][ScenarioNext]_vars


----------------------------------------------------------------------------
(* Vocabulary of the properties *)

\* The stored pressure, temperature and composition of an engine object.
Canonical(detail) == <<detail.p, detail.t, detail.x>>

\* The line just read was read at prompt `at`.
ReadAt(at) == input.at = at

\* The line just read was this line at this prompt.
Read(at, line) == input = [at |-> at, line |-> line]

\* The lines each prompt accepts.
ValidLine(at, line) ==
    CASE at = "MainMenu" -> line \in {"g", "p", "t", "u", "1", "2", "q"}
      [] at = "SelectGas" -> line \in {"1", "2", "3", "4"}
      [] at = "SetPressure" -> parse_f64(line).ok
      [] at = "SetTemperature" -> parse_f64(line).ok
      [] at = "ChangeUnits" -> line \in {"1", "2", "3"}
      [] at = "ChangeUnitPressure" -> line \in {"1", "2", "3"}
      [] at = "ChangeUnitTemperature" -> line \in {"1", "2", "3", "4"}
      [] at = "ChangeUnitInternalEnergy" -> line \in {"1", "2", "3"}
      [] OTHER -> TRUE

\* The calls of the last step that match.
Called(object, call) ==
    \E i \in 1..Len(engine_log) :
        engine_log[i].object = object /\ engine_log[i].call = call

DensityFailed ==
    \E i \in 1..Len(engine_log) :
        engine_log[i].call = "density" /\ ~engine_log[i].ok

----------------------------------------------------------------------------
(* C1 *)

\* C1: a snapshot slot's stored pressure, temperature and composition change
\* in no step other than the slot's own snapshot command (line 1 at the main
\* menu for the inlet, line 2 for the discharge).
C1_SnapshotIndependence ==
    [][ /\ ~Read("MainMenu", "1")' =>
              Canonical(program_state.inlet_state)' = Canonical(program_state.inlet_state)
        /\ ~Read("MainMenu", "2")' =>
              Canonical(program_state.discharge_state)' = Canonical(program_state.discharge_state)
      ]_vars

\* An inlet snapshot was taken and the current pressure was set afterwards to
\* a value other than the stored one.
C1_Witness ==
    /\ program_state.show_inlet_state
    /\ Read("SetPressure", "1000")
    /\ prompt = "MainMenu"
    /\ program_state.inlet_state.p = Num(500)
    /\ program_state.gas_state.p = Num(1000)

----------------------------------------------------------------------------
(* C2 *)

\* C2: right after a snapshot command the slot's pressure, temperature and
\* composition equal those of the current operating point (the composition
\* loaded in gas_state), whatever gas has been selected.
C2_SnapshotCopiesCurrent ==
    /\ Read("MainMenu", "1") =>
          Canonical(program_state.inlet_state) = Canonical(program_state.gas_state)
    /\ Read("MainMenu", "2") =>
          Canonical(program_state.discharge_state) = Canonical(program_state.gas_state)

----------------------------------------------------------------------------
(* C3 *)

\* C3: a line that is not valid at the prompt where it is read makes that
\* same prompt the next one presented.
C3_InvalidInputReprompts ==
    [][ ~ValidLine(prompt, input'.line) => prompt' = prompt ]_vars

----------------------------------------------------------------------------
(* C4 *)

\* The fields of the current operating point that the three prompts write.
CurrentPoint == <<program_state.gas_state.p, program_state.gas_state.t,
                  program_state.gas_state.x, program_state.gas>>

\* C4: a line that fails to parse at the pressure or temperature prompt, or
\* is not a choice 1-4 at the gas prompt, changes none of the current
\* pressure, temperature, gas name and composition; and the fallback 0.0 and
\* the empty default composition are never in the current operating point.
C4_WritesOnlyAfterParse ==
    /\ [][ (prompt \in {"SetPressure", "SetTemperature", "SelectGas"}
              /\ ~ValidLine(prompt, input'.line))
           => CurrentPoint' = CurrentPoint ]_vars
    /\ [](/\ program_state.gas_state.p # Zero
          /\ program_state.gas_state.t # Zero
          /\ program_state.gas_state.x # CompositionDefault)

\* A line that does not parse was read at the pressure prompt, after the
\* pressure had been set to 500.
C4_Witness ==
    /\ Read("SetPressure", "abc")
    /\ prompt = "SetPressure"
    /\ program_state.gas_state.p = Num(500)

----------------------------------------------------------------------------
(* C5 *)

\* C5: a refresh in which the density computation fails surfaces a warning,
\* and neither calls properties() nor changes the derived bundle.
C5_BundleKeptOnFailure ==
    [][ DensityFailed' =>
          /\ Called("stdout", "warning")'
          /\ ~Called("gas_state", "properties")'
          /\ program_state'.gas_state.props = program_state.gas_state.props ]_vars

----------------------------------------------------------------------------
(* C6 *)

UnitPrompts == {"ChangeUnits", "ChangeUnitPressure", "ChangeUnitTemperature",
                "ChangeUnitInternalEnergy"}

\* Everything of the session that is not a unit preference.
CanonicalSession ==
    <<Canonical(program_state.gas_state), Canonical(program_state.inlet_state),
      Canonical(program_state.discharge_state),
      program_state.show_inlet_state, program_state.show_discharge_state>>

\* C6: every step of a change-unit command (the line u at the main menu and
\* every line read at a unit prompt, valid or not) leaves the canonical
\* pressure, temperature and composition of the current point and of both
\* slots, and both show flags, as they were; and with PSI selected the
\* rendered pressure is the stored pressure times 0.145038.
C6_UnitChangeKeepsCanonical ==
    /\ [][ (prompt \in UnitPrompts \/ Read("MainMenu", "u")')
           => CanonicalSession' = CanonicalSession ]_vars
    /\ [](program_state.units.pressure = "PSI" =>
            screen.pressure = RMul(program_state.gas_state.p, Rat(145038, 1000000)))

\* PSI was chosen at a stored pressure of 100 kPa, and the render shows
\* 14.5038.
C6_Witness ==
    /\ Read("ChangeUnitPressure", "3")
    /\ prompt = "MainMenu"
    /\ program_state.gas_state.p = Num(100)
    /\ screen.pressure = Rat(145038, 10000)
    /\ screen.pressure_unit = "PSI"

----------------------------------------------------------------------------
(* C7 *)

\* C7: the step that reads a valid choice at the gas prompt ends with both
\* show flags false, the gas name and the loaded composition those of the
\* chosen preset, a density and a properties call made on the current
\* point, and the stored values of both slots as they were.
C7_GasSelection ==
    [][ (prompt = "SelectGas" /\ ValidLine("SelectGas", input'.line)) =>
          /\ ~program_state'.show_inlet_state
          /\ ~program_state'.show_discharge_state
          /\ program_state'.gas = gas_of_choice(input'.line)
          /\ program_state'.gas_state.x = get_gas_comp(gas_of_choice(input'.line))
          /\ Called("gas_state", "density")'
          /\ Called("gas_state", "properties")'
          /\ Canonical(program_state.inlet_state)' = Canonical(program_state.inlet_state)
          /\ Canonical(program_state.discharge_state)' = Canonical(program_state.discharge_state)
      ]_vars

\* Argon was selected while an inlet snapshot at 500 kPa was stored.
C7_Witness ==
    /\ Read("SelectGas", "2")
    /\ prompt = "MainMenu"
    /\ program_state.gas = "Argon"
    /\ program_state.inlet_state.p = Num(500)
    /\ ~program_state.show_inlet_state

----------------------------------------------------------------------------
(* C8 *)

\* C8: a slot whose snapshot was hidden by a gas selection (its show flag is
\* false and it holds stored values) has no column in the render, whatever
\* the other slot's flag.
C8_HiddenSlotNotRendered ==
    /\ (~program_state.show_inlet_state /\ program_state.inlet_state.p # Zero)
          => screen.inlet = <<>>
    /\ (~program_state.show_discharge_state /\ program_state.discharge_state.p # Zero)
          => screen.discharge = <<>>

----------------------------------------------------------------------------
(* C9 *)

\* C9: the render holds the comparison lines exactly when both show flags
\* are true.
C9_ComparisonIffBothVisible ==
    (screen.comparison # <<>>) <=>
        (program_state.show_inlet_state /\ program_state.show_discharge_state)

\* Both slots are visible and the comparison is rendered, after a pressure
\* change that followed the snapshots.
C9_Witness ==
    /\ program_state.show_inlet_state
    /\ program_state.show_discharge_state
    /\ screen.comparison # <<>>
    /\ ReadAt("SetPressure")

----------------------------------------------------------------------------
(* C10 *)

\* C10: whenever the comparison is rendered, the pressure and temperature
\* ratios are discharge / inlet of the stored kPa and K values, whatever the
\* display units and the current point; the discharge snapshot that
\* completes a pair renders the ratio of the current point at that moment
\* to the stored inlet; and with Argon, inlet 500 and discharge 1000 the
\* pressure ratio is 2.
C10_RatiosOfCanonicalValues ==
    /\ [](screen.comparison # <<>> =>
            /\ screen.comparison[1].pr =
                 RDiv(program_state.discharge_state.p, program_state.inlet_state.p)
            /\ screen.comparison[1].tr =
                 RDiv(program_state.discharge_state.t, program_state.inlet_state.t))
    /\ [][ (Read("MainMenu", "2")' /\ program_state.show_inlet_state) =>
             /\ screen'.comparison # <<>>
             /\ screen'.comparison[1].pr =
                  RDiv(program_state.gas_state.p, program_state.inlet_state.p)
             /\ screen'.comparison[1].tr =
                  RDiv(program_state.gas_state.t, program_state.inlet_state.t) ]_vars
    /\ []((/\ screen.comparison # <<>>
           /\ program_state.gas = "Argon"
           /\ program_state.inlet_state.p = Num(500)
           /\ program_state.discharge_state.p = Num(1000))
          => screen.comparison[1].pr = Num(2))

\* The end-to-end scenario: Argon, 500 kPa, 300 K, inlet snapshot, 1000 kPa,
\* discharge snapshot.
C10_Witness ==
    /\ Read("MainMenu", "2")
    /\ program_state.gas = "Argon"
    /\ program_state.units.pressure = "kPa"
    /\ program_state.units.temp = "K"
    /\ program_state.inlet_state.p = Num(500)
    /\ program_state.inlet_state.t = Num(300)
    /\ program_state.discharge_state.p = Num(1000)
    /\ program_state.gas_state.p = Num(1000)
    /\ screen.comparison # <<>>
    /\ screen.comparison[1].pr = Num(2)
    /\ depth = 21

----------------------------------------------------------------------------
(* C11 *)

\* The scale factor of a temperature display unit (its conversion without
\* the offset term).
DeltaFactor(unit) ==
    CASE unit \in {"K", "C"} -> Num(1)
      [] unit \in {"F", "R"} -> Rat(9, 5)

\* C11: the rendered temperature rise is the kelvin difference of the two
\* slots times the scale factor of the active temperature display unit, and
\* its label is that unit.
C11_RiseInDisplayUnit ==
    screen.comparison # <<>> =>
        /\ screen.comparison[1].td =
              RMul(RSub(program_state.discharge_state.t, program_state.inlet_state.t),
                   DeltaFactor(program_state.units.temp))
        /\ screen.comparison[1].td_unit = program_state.unit_text.temperature

----------------------------------------------------------------------------
(* C12 *)

\* The prompts whose valid line completes a command.
CompletingPrompts == {"SelectGas", "SetPressure", "SetTemperature",
                      "ChangeUnitPressure", "ChangeUnitTemperature",
                      "ChangeUnitInternalEnergy"}

\* C12: the main menu is presented next after a valid line at the gas,
\* pressure, temperature and unit prompts, after either snapshot and after
\* an unrecognised token at the main menu, also when the refresh of that
\* step reported an engine failure; the session exits only by the line q
\* read at the main menu, that line does exit, and nothing follows exit.
C12_MenuStateMachine ==
    [][ /\ (prompt \in CompletingPrompts /\ ValidLine(prompt, input'.line))
              => prompt' = "MainMenu"
        /\ (prompt = "MainMenu" /\ input'.line \in {"1", "2"}) => prompt' = "MainMenu"
        /\ (prompt = "MainMenu" /\ ~ValidLine("MainMenu", input'.line))
              => prompt' = "MainMenu"
        /\ DensityFailed' => prompt' = "MainMenu"
        /\ prompt' = "Exit" => (prompt = "MainMenu" /\ input'.line = "q")
        /\ (prompt = "MainMenu" /\ input'.line = "q") => prompt' = "Exit"
        /\ prompt # "Exit"
      ]_vars

\* The main menu is presented after a pressure entry whose refresh failed.
C12_Witness ==
    /\ prompt = "MainMenu"
    /\ ReadAt("SetPressure")
    /\ DensityFailed
    /\ Called("stdout", "warning")

----------------------------------------------------------------------------
(* C13 *)

\* The canonical pressures and temperatures the session holds.
StoredPressures ==
    {program_state.gas_state.p, program_state.inlet_state.p,
     program_state.discharge_state.p}

StoredTemperatures ==
    {program_state.gas_state.t, program_state.inlet_state.t,
     program_state.discharge_state.t}

\* C13: for every stored canonical value and every pressure unit and
\* temperature unit, the display conversion followed by the input conversion
\* of the same unit gives the value back; and a value entered at the
\* pressure or temperature prompt is the value rendered under the unit it
\* was entered in.  (Exact in rational arithmetic.)
C13_ConversionRoundTrip ==
    /\ \A x \in StoredPressures, u \in UnitPressure :
          pressure_from_input(get_pressure(x, u), u) = x
    /\ \A x \in StoredTemperatures, u \in UnitTemp :
          temperature_from_input(get_temperature(x, u), u) = x
    /\ (ReadAt("SetPressure") /\ prompt = "MainMenu")
          => screen.pressure = parse_f64(input.line).num
    /\ (ReadAt("SetTemperature") /\ prompt = "MainMenu")
          => screen.temperature = parse_f64(input.line).num

\* 300 was entered with Rankine as the display unit: 500/3 K is stored and
\* 300 is rendered.
C13_Witness ==
    /\ Read("SetTemperature", "300")
    /\ prompt = "MainMenu"
    /\ program_state.units.temp = "R"
    /\ program_state.gas_state.t = Rat(500, 3)
    /\ screen.temperature = Num(300)

----------------------------------------------------------------------------
(* C14 *)

\* C14: the step of a snapshot command calls density and properties on the
\* slot it fills, so that the slot's bundle is computed for the copied
\* pressure, temperature and composition.
C14_SnapshotRefreshesSlot ==
    /\ Read("MainMenu", "1") =>
          /\ Called("inlet_state", "density")
          /\ Called("inlet_state", "properties")
          /\ program_state.inlet_state.props.status = "computed"
    /\ Read("MainMenu", "2") =>
          /\ Called("discharge_state", "density")
          /\ Called("discharge_state", "properties")
          /\ program_state.discharge_state.props.status = "computed"

----------------------------------------------------------------------------
(* C15 *)

\* The current point's bundle was computed by a density and a properties
\* call made on the pressure, temperature and composition it holds now.
RefreshedForCurrent(detail) ==
    /\ detail.props.status = "computed"
    /\ detail.props.t = detail.t
    /\ detail.props.x = detail.x
    /\ detail.props.d.status \in {"ok", "err"}
    /\ detail.props.d.p = detail.p
    /\ detail.props.d.t = detail.t
    /\ detail.props.d.x = detail.x

\* C15: every step that writes the current pressure, temperature or
\* composition (a valid line at the pressure, temperature or gas prompt)
\* calls density and properties on the current point in the same step, and
\* so does startup; hence at every read and in every render the bundle is
\* the one attempted for the values the current point holds.
C15_RefreshAfterWrite ==
    /\ [][ (\/ Canonical(program_state.gas_state)' # Canonical(program_state.gas_state)
            \/ (prompt \in {"SelectGas", "SetPressure", "SetTemperature"}
                  /\ ValidLine(prompt, input'.line)))
           => (Called("gas_state", "density")' /\ Called("gas_state", "properties")') ]_vars
    /\ [](ReadAt("main") => Called("gas_state", "density"))
    /\ [](RefreshedForCurrent(program_state.gas_state)
            /\ screen.properties = program_state.gas_state.props)

\* The temperature was set to 300 K and the bundle rendered is the one
\* computed for 300 K.
C15_Witness ==
    /\ Read("SetTemperature", "300")
    /\ prompt = "MainMenu"
    /\ program_state.gas_state.t = Num(300)
    /\ screen.properties.t = Num(300)
    /\ screen.properties.d.t = Num(300)

----------------------------------------------------------------------------
(* C16 *)

\* The engine calls of the last step that are density calls on gas_state.
DensityCalls ==
    {i \in 1..Len(engine_log) :
        engine_log[i].object = "gas_state" /\ engine_log[i].call = "density"}

\* C16: at the first render (before any line is read) the gas is Air with
\* nitrogen 0.78, oxygen 0.21, argon 0.01, the stored pressure is 100 kPa
\* and temperature 273.15 K, the units are kPa, K and J/mol, neither slot is
\* visible, and exactly one refresh of the current point has been attempted.
C16_InitialSession ==
    ReadAt("main") =>
        /\ prompt = "MainMenu"
        /\ program_state.gas = "Air"
        /\ screen.gas = "Air"
        /\ program_state.gas_state.x = [nitrogen |-> 78, oxygen |-> 21, argon |-> 1]
        /\ program_state.gas_state.p = <<100, 1>>
        /\ program_state.gas_state.t = <<5463, 20>>
        /\ screen.pressure = <<100, 1>>
        /\ screen.temperature = <<5463, 20>>
        /\ program_state.units =
              [pressure |-> "kPa", temp |-> "K", internal_energy |-> "J_mol"]
        /\ screen.pressure_unit = "kPa"
        /\ screen.temperature_unit = "K"
        /\ screen.internal_energy_unit = "J/mol"
        /\ ~program_state.show_inlet_state
        /\ ~program_state.show_discharge_state
        /\ screen.inlet = <<>>
        /\ screen.discharge = <<>>
        /\ Cardinality(DensityCalls) = 1
        /\ Called("gas_state", "properties")

\* The first render, with the engine in bounds for the initial point.
C16_Witness ==
    /\ ReadAt("main")
    /\ prompt = "MainMenu"
    /\ depth = 3
    /\ screen.gas = "Air"
    /\ program_state.gas_state.d.status = "ok"

----------------------------------------------------------------------------
(* C17 *)

\* The label that names a unit variant.
LabelOf(unit) ==
    CASE unit = "J_mol" -> "J/mol"
      [] unit = "kJ_kg" -> "kJ/kg"
      [] unit = "BTU_lbm" -> "BTU/lbm"
      [] OTHER -> unit

\* C17: in every state the three unit labels name the three unit variants
\* stored, the variants are among those the conversions handle, and the
\* labels rendered are those labels.
C17_LabelsNameUnits ==
    /\ program_state.units.pressure \in UnitPressure
    /\ program_state.units.temp \in UnitTemp
    /\ program_state.units.internal_energy \in UnitInternalEnergy
    /\ program_state.unit_text.pressure = LabelOf(program_state.units.pressure)
    /\ program_state.unit_text.temperature = LabelOf(program_state.units.temp)
    /\ program_state.unit_text.internal_energy = LabelOf(program_state.units.internal_energy)
    /\ screen.pressure_unit = LabelOf(program_state.units.pressure)
    /\ screen.temperature_unit = LabelOf(program_state.units.temp)
    /\ screen.internal_energy_unit = LabelOf(program_state.units.internal_energy)

\* An invalid line was just read at the pressure-unit prompt, with Rankine
\* and BTU/lbm selected earlier.
C17_Witness ==
    /\ Read("ChangeUnitPressure", "x")
    /\ prompt = "ChangeUnitTemperature"
    /\ program_state.units.temp = "R"
    /\ program_state.unit_text.temperature = "R"
    /\ program_state.units.internal_energy = "BTU_lbm"
    /\ program_state.unit_text.internal_energy = "BTU/lbm"

----------------------------------------------------------------------------
(* C18 *)

\* C18: in every state the gas name rendered is the gas name stored, it is
\* one of the four presets, and the composition loaded in the current
\* point's engine state is that preset's composition.
C18_NameMatchesComposition ==
    /\ program_state.gas \in GasComp
    /\ screen.gas = program_state.gas
    /\ program_state.gas_state.x = get_gas_comp(program_state.gas)

\* An invalid line was read at the gas prompt after Oxygen had been
\* selected.
C18_Witness ==
    /\ Read("SelectGas", "x")
    /\ prompt = "SelectGas"
    /\ program_state.gas = "Oxygen"
    /\ program_state.gas_state.x = [nitrogen |-> 0, oxygen |-> 100, argon |-> 0]

----------------------------------------------------------------------------
(* C19 *)

\* The step reads a valid choice at the gas prompt.
GasSelectionStep == prompt = "SelectGas" /\ ValidLine("SelectGas", input'.line)

\* C19: the inlet flag becomes true only in the step of line 1 at the main
\* menu and the discharge flag only in the step of line 2; either flag
\* becomes false only in a step that reads a valid gas choice; steps at the
\* pressure, temperature and unit prompts and steps reading an invalid line
\* leave both flags as they were; and a rendered comparison stays rendered
\* through every step that is not a gas selection.
C19_FlagsChangeByOwnCommands ==
    [][ /\ (program_state'.show_inlet_state /\ ~program_state.show_inlet_state)
              => (prompt = "MainMenu" /\ input'.line = "1")
        /\ (program_state'.show_discharge_state /\ ~program_state.show_discharge_state)
              => (prompt = "MainMenu" /\ input'.line = "2")
        /\ (\/ (program_state.show_inlet_state /\ ~program_state'.show_inlet_state)
            \/ (program_state.show_discharge_state /\ ~program_state'.show_discharge_state))
              => GasSelectionStep
        /\ (\/ prompt \in {"SetPressure", "SetTemperature"} \cup UnitPrompts
            \/ ~ValidLine(prompt, input'.line))
              => /\ program_state'.show_inlet_state = program_state.show_inlet_state
                 /\ program_state'.show_discharge_state = program_state.show_discharge_state
        /\ (screen.comparison # <<>> /\ ~GasSelectionStep) => screen'.comparison # <<>>
      ]_vars

\* Both slots are visible and the comparison is still rendered after a
\* pressure change and a change of the temperature unit.
C19_Witness ==
    /\ Read("ChangeUnitTemperature", "3")
    /\ prompt = "MainMenu"
    /\ program_state.show_inlet_state
    /\ program_state.show_discharge_state
    /\ screen.comparison # <<>>
    /\ program_state.gas_state.p = Num(1000)
    /\ program_state.inlet_state.p = Num(100)
    /\ program_state.discharge_state.p = Num(100)

----------------------------------------------------------------------------
(* C20 *)

\* C20: no step lowers the call depth; every step other than the quit line
\* raises it, by at least one frame for a line that leads to a prompt of
\* its own and by at least two (print_gas_state and print_main_menu) for a
\* line that completes a command; the depth is never below that of the
\* first read.
C20_DepthOnlyGrows ==
    /\ [][ /\ depth' >= depth
           /\ ~(prompt = "MainMenu" /\ input'.line = "q") => depth' > depth
           /\ (prompt \in CompletingPrompts /\ ValidLine(prompt, input'.line))
                 => depth' >= depth + 2
           /\ (prompt = "MainMenu" /\ input'.line \in {"1", "2"}) => depth' >= depth + 3
         ]_vars
    /\ [](depth >= 3 /\ depth <= stack_limit)

\* Invalid and valid lines have filled the explored stack: an invalid line
\* was read at the pressure prompt at the deepest frame.
C20_Witness ==
    /\ depth = stack_limit
    /\ Read("SetPressure", "abc")
    /\ prompt = "SetPressure"
    /\ program_state.show_inlet_state

====
